---- MODULE Spec2Model ----
(***************************************************************************)
(* A model of the saga orchestration engine (orchestrator.go), of its      *)
(* in-memory storage and recovery manager (storage.go) and of the          *)
(* in-memory pub/sub (MemoryPubSub).                                       *)
(*                                                                         *)
(* Every message published is handled by a goroutine of its own            *)
(* (`go handler(msg)`); `tasks` is the bag of those goroutines with their  *)
(* position in ExecuteStep / CompensateStep.  MemoryStorage hands out the  *)
(* stored *Step, so a goroutine reads and writes the stored step itself:   *)
(* `steps[i]` is both MemoryStorage.steps[id] and saga.Steps[i], which     *)
(* UpdateStep and SaveSaga keep equal.  (After the recovery loop has       *)
(* stored its own copy of a step, a goroutine that fetched the step before *)
(* holds the older object; the fields it does not assign, Error and        *)
(* StartedAt, are then taken from the stored step here.)                   *)
(***************************************************************************)
EXTENDS Integers, FiniteSets, Sequences, Bags, TLC

\* ---------------------------------------------------------------- bounds
MaxSteps == 2      \* longest step list given to StartSaga
MaxInbox == 1      \* undelivered identical messages kept per subscriber
MaxActive == 2     \* goroutines inside ExecuteStep/CompensateStep at a time
MaxScans == 1      \* ticks of the recovery loop that find stuck steps
MaxCalls == 4      \* Start and Stop calls made on one RecoveryManager
RollbackSteps == 3 \* steps of the saga whose rollback is followed
MaxKeys == 2       \* keys of the data maps
MaxCopies == 1     \* Step copies a recovery scan makes and stores
MaxHeld == 2       \* callers holding a *Step at a time

Orchs == {"o1", "o2"}
Names == 1..MaxSteps            \* step names; step i of the saga is named i

\* ---------------------------------------------------------------- types.go
StatusPending == "pending"
StatusProcessing == "processing"
StatusCompleted == "completed"
StatusFailed == "failed"
StatusCompensated == "compensated"

NoSaga == "none"

\* The error values ExecuteStep and CompensateStep return, and the record of
\* a return: the line of the return statement and the error it returns
\* (NoCall: neither has returned yet).
Nil == "nil"
ErrNoHandler == "no handler for step"
Return(line, e) == [line |-> line, err |-> e]
NoCall == Return(0, "none")

VARIABLES
  handlers,    \* Orchestrator.handlers: orchestrator -> set of step names
  listening,   \* MemoryPubSub.subscribers["saga_events"]
  sagaStatus,  \* Saga.Status of the stored saga (NoSaga before StartSaga)
  steps,       \* the stored steps, in the order of Saga.Steps
  tasks,       \* bag of goroutines started by Publish
  scan,        \* recoverStuckSteps: snapshots still to be processed
  running,     \* RecoveryManager.running
  scans,       \* ticks of the recovery loop so far
  returned,    \* the last return of an ExecuteStep/CompensateStep call
  loops,       \* recoveryLoop goroutines that are alive
  closes,      \* close(r.stopCh) executed so far (the second one panics)
  calls,       \* the Start and Stop calls made on the RecoveryManager
  sagaData,    \* Saga.Data of the stored saga
  stepPtr,     \* MemoryStorage.steps: step id -> the *Step stored for it
  heap,        \* the Step copies recoverStuckSteps has allocated
  held         \* the *Step values callers hold between GetStep and UpdateStep

\* the RecoveryManager's goroutines, stop channel and callers
lifecycle == <<loops, closes, calls>>

\* the pointers of MemoryStorage.steps and of its callers
aliasing == <<stepPtr, heap, held>>

vars == <<handlers, listening, sagaStatus, steps, tasks, scan, running, scans, returned,
          loops, closes, calls, sagaData, stepPtr, heap, held>>

\* A data map (map[string]interface{}): the value of each key, Absent for a
\* key the map does not have.  A handler of step i writes the value i.
DataKeys == 1..MaxKeys
Absent == 0
EmptyData == [k \in DataKeys |-> Absent]

\* for k, v := range over { base[k] = v }
Overlay(base, over) == [k \in DataKeys |-> IF over[k] # Absent THEN over[k] ELSE base[k]]

\* A Step value.  started: StartedAt is not nil.  old: the timestamp that
\* GetStuckSteps compares for this status (StartedAt of a processing step,
\* UpdatedAt otherwise) is older than the step timeout.  data: Step.Data.
NewStep == [status |-> StatusPending, started |-> FALSE, old |-> FALSE, err |-> "",
            data |-> EmptyData]

Idx == 1..Len(steps)

Min(a, b) == IF a < b THEN a ELSE b

\* ---------------------------------------------------------------- storage.go
\* GetStep(id)
GetStep(i) == steps[i]

\* step.UpdatedAt = time.Now()
Touch(v) == IF v.status = StatusProcessing THEN v ELSE [v EXCEPT !.old = FALSE]

\* UpdateStep(step): step.UpdatedAt = now; m.steps[id] = step;
\* saga.Steps[i] = *step.
UpdateStep(ss, i, v) == [ss EXCEPT ![i] = Touch(v)]

\* SaveSaga(saga): every step of the saga gets UpdatedAt = now and is stored.
SaveSaga(ss) == [i \in DOMAIN ss |-> Touch(ss[i])]

\* GetStuckSteps: the stored steps that are stuck, by value.
IsStuck(v) ==
  \/ v.status = StatusPending /\ v.old
  \/ v.status = StatusProcessing /\ v.started /\ v.old

GetStuckSteps == {[step |-> i, status |-> steps[i].status, err |-> steps[i].err,
                   data |-> steps[i].data] :
                    i \in {j \in Idx : IsStuck(steps[j])}}

\* ---------------------------------------------------------------- pubsub
\* exec: the execData map of the call (lines 106-113), empty until it is built
StartTask(o, type, i) ==
  [orch |-> o, type |-> type, step |-> i, pc |-> "start", exec |-> EmptyData]

\* Publish one message of `type` for each step in S: one goroutine per
\* subscriber and message.
Publish(B, type, S) ==
  LET new == {StartTask(o, type, i) : o \in listening, i \in S}
  IN [t \in BagToSet(B) \cup new |->
        IF t \in new THEN Min(CopiesIn(t, B) + 1, MaxInbox) ELSE CopiesIn(t, B)]

Remove(B, t) == B (-) SetToBag({t})
Move(B, t, u) == Remove(B, t) (+) SetToBag({u})

\* goroutines that are past the status check of ExecuteStep / CompensateStep
Active == {t \in BagToSet(tasks) : t.pc # "start"}
RECURSIVE Copies(_, _)
Copies(B, T) == IF T = {} THEN 0
                ELSE LET t == CHOOSE x \in T : TRUE IN CopiesIn(t, B) + Copies(B, T \ {t})
ActiveCount == Copies(tasks, Active)

\* ---------------------------------------------------------------- Init
Init ==
  /\ handlers = [o \in Orchs |-> {}]
  /\ listening = {}
  /\ sagaStatus = NoSaga
  /\ steps = <<>>
  /\ tasks = EmptyBag
  /\ scan = {}
  /\ running = FALSE
  /\ scans = 0
  /\ returned = NoCall
  /\ loops = 0 /\ closes = 0 /\ calls = <<>>
  /\ sagaData = EmptyData
  /\ stepPtr = <<>> /\ heap = <<>> /\ held = {}

\* ---------------------------------------------------------------- orchestrator.go
\* RegisterHandler(stepName, handler).  The registry is a plain map: it is
\* written only while no goroutine of this orchestrator can read it (before
\* the saga is started, or before the orchestrator listens), and each step
\* name is owned by one orchestrator (one service per step).
RegisterHandler(o, n) ==
  /\ sagaStatus = NoSaga \/ o \notin listening
  /\ \A q \in Orchs : n \notin handlers[q]
  /\ handlers' = [handlers EXCEPT ![o] = @ \cup {n}]
  /\ UNCHANGED <<sagaData, listening, sagaStatus, steps, tasks, scan, running, scans, returned, lifecycle, aliasing>>

\* StartListener: Subscribe(ctx, "saga_events", ...)
StartListener(o) ==
  /\ o \notin listening
  /\ listening' = listening \cup {o}
  /\ UNCHANGED <<sagaData, handlers, sagaStatus, steps, tasks, scan, running, scans, returned, lifecycle, aliasing>>

\* StartSaga(name, steps, data) with n step names: build the saga, SaveSaga,
\* publish step_execute for the first step when there is one.
StartSaga(n) ==
  /\ sagaStatus = NoSaga
  /\ sagaStatus' = StatusPending
  /\ steps' = SaveSaga([i \in 1..n |-> NewStep])
  /\ tasks' = IF n > 0 THEN Publish(tasks, "step_execute", {1}) ELSE tasks
  /\ sagaData' = EmptyData
  /\ UNCHANGED <<handlers, listening, scan, running, scans, returned, lifecycle, aliasing>>

\* An ExecuteStep without the status guard of line 84.
ExecuteStepGetUnguarded(t) ==
  /\ t.type = "step_execute" /\ t.pc = "start"
  /\ IF t.step \notin handlers[t.orch]
     THEN tasks' = Remove(tasks, t) /\ returned' = Return(90, ErrNoHandler)
     ELSE /\ ActiveCount < MaxActive
          /\ tasks' = Move(tasks, t, [t EXCEPT !.pc = "checked"])
          /\ returned' = returned
  /\ UNCHANGED <<sagaData, handlers, listening, sagaStatus, steps, scan, running, scans, lifecycle, aliasing>>

\* An ExecuteStep that marks the step processing before it looks up the
\* handler.
ExecuteStepGetMarksFirst(t) ==
  /\ t.type = "step_execute" /\ t.pc = "start"
  /\ IF GetStep(t.step).status # StatusPending
     THEN tasks' = Remove(tasks, t) /\ returned' = Return(85, Nil) /\ steps' = steps
     ELSE IF t.step \notin handlers[t.orch]
     THEN /\ tasks' = Remove(tasks, t) /\ returned' = Return(90, ErrNoHandler)
          /\ steps' = UpdateStep(steps, t.step,
                        [steps[t.step] EXCEPT !.status = StatusProcessing,
                                              !.started = TRUE, !.old = FALSE])
     ELSE /\ ActiveCount < MaxActive
          /\ tasks' = Move(tasks, t, [t EXCEPT !.pc = "checked"])
          /\ returned' = returned /\ steps' = steps
  /\ UNCHANGED <<sagaData, handlers, listening, sagaStatus, scan, running, scans, lifecycle, aliasing>>

\* ExecuteStep, lines 79-91: GetStep, the status guard, the handler lookup.
ExecuteStepGet(t) ==
  /\ t.type = "step_execute" /\ t.pc = "start"
  /\ IF GetStep(t.step).status # StatusPending
     THEN tasks' = Remove(tasks, t) /\ returned' = Return(85, Nil)
     ELSE IF t.step \notin handlers[t.orch]
     THEN tasks' = Remove(tasks, t) /\ returned' = Return(90, ErrNoHandler)
     ELSE /\ ActiveCount < MaxActive
          /\ tasks' = Move(tasks, t, [t EXCEPT !.pc = "checked"])
          /\ returned' = returned
  /\ UNCHANGED <<sagaData, handlers, listening, sagaStatus, steps, scan, running, scans, lifecycle, aliasing>>

\* An ExecuteStep that marks the step processing without setting StartedAt.
ExecuteStepMarkNoStartedAt(t) ==
  /\ t.type = "step_execute" /\ t.pc = "checked"
  /\ steps' = UpdateStep(steps, t.step,
                [steps[t.step] EXCEPT !.status = StatusProcessing, !.old = FALSE])
  /\ tasks' = Move(tasks, t, [t EXCEPT !.pc = "running",
                                       !.exec = Overlay(sagaData, steps[t.step].data)])
  /\ UNCHANGED <<sagaData, handlers, listening, sagaStatus, scan, running, scans, returned, lifecycle, aliasing>>

\* ExecuteStep, lines 94-113: mark the step processing, UpdateStep, GetSaga,
\* build execData from saga.Data and step.Data; the handler's Execute is then
\* running.
ExecuteStepMark(t) ==
  /\ t.type = "step_execute" /\ t.pc = "checked"
  /\ steps' = UpdateStep(steps, t.step,
                [steps[t.step] EXCEPT !.status = StatusProcessing, !.started = TRUE, !.old = FALSE])
  /\ tasks' = Move(tasks, t, [t EXCEPT !.pc = "running",
                                       !.exec = Overlay(sagaData, steps[t.step].data)])
  /\ UNCHANGED <<sagaData, handlers, listening, sagaStatus, scan, running, scans, returned, lifecycle, aliasing>>

\* The forward action of step t.step, running, writes data[k] (README,
\* lines 25-45: data["order_id"] = "12345").
HandlerWrite(t, k) ==
  /\ t.type = "step_execute" /\ t.pc = "running"
  /\ t.exec[k] # t.step
  /\ tasks' = Move(tasks, t, [t EXCEPT !.exec[k] = t.step])
  /\ UNCHANGED <<sagaData, handlers, listening, sagaStatus, steps, scan, running, scans,
                 returned, lifecycle, aliasing>>

\* An ExecuteStep that marks the step failed without recording the error.
ExecuteStepReturnDropsError(t, ok) ==
  /\ t.type = "step_execute" /\ t.pc = "running"
  /\ steps' = UpdateStep(steps, t.step,
                IF ok THEN [steps[t.step] EXCEPT !.status = StatusCompleted, !.data = t.exec]
                ELSE [steps[t.step] EXCEPT !.status = StatusFailed])
  /\ tasks' = Move(tasks, t, [t EXCEPT !.pc = IF ok THEN "succeeded" ELSE "failed"])
  /\ UNCHANGED <<sagaData, handlers, listening, sagaStatus, scan, running, scans, returned, lifecycle, aliasing>>

\* ExecuteStep, lines 115-120 and 128-130: Execute returns; the step is
\* written failed (with the error) or completed, and UpdateStep stores it.
ExecuteStepReturn(t, ok) ==
  /\ t.type = "step_execute" /\ t.pc = "running"
  /\ steps' = UpdateStep(steps, t.step,
                IF ok THEN [steps[t.step] EXCEPT !.status = StatusCompleted, !.data = t.exec]
                ELSE [steps[t.step] EXCEPT !.status = StatusFailed, !.err = "execute"])
  /\ tasks' = Move(tasks, t, [t EXCEPT !.pc = IF ok THEN "succeeded" ELSE "failed"])
  /\ UNCHANGED <<sagaData, handlers, listening, sagaStatus, scan, running, scans, returned, lifecycle, aliasing>>

\* A continueOrComplete whose scan does not stop at the first step that is
\* not completed: the index of the last completed step.
CurrentIndexNoBreak(ss, i) ==
  LET C == {j \in DOMAIN ss : ss[j].status = StatusCompleted}
  IN IF C = {} THEN 0 ELSE CHOOSE j \in C : \A l \in C : l <= j

\* A continueOrComplete that does not look at the steps that follow.
CurrentIndexUnchecked(ss, i) == Len(ss)

\* continueOrComplete: index of the last step of the completed prefix
\* (0 when the first step is not completed; the code's currentIndex + 1).
RECURSIVE CurrentIndex(_, _)
CurrentIndex(ss, i) ==
  IF i <= Len(ss) /\ ss[i].status = StatusCompleted THEN CurrentIndex(ss, i + 1) ELSE i - 1

\* startCompensation, lines 230-241: the loop from the last step down to the
\* first; the steps a step_compensate is published for, in the order of the
\* Publish calls (i is the step the loop is at).
RECURSIVE CompensationOrder(_, _)
CompensationOrder(ss, i) ==
  IF i = 0 THEN <<>>
  ELSE (IF ss[i].status = StatusCompleted THEN <<i>> ELSE <<>>) \o CompensationOrder(ss, i - 1)

\* startCompensation: the steps a step_compensate is published for.
ToCompensate(ss) ==
  LET ord == CompensationOrder(ss, Len(ss)) IN {ord[k] : k \in DOMAIN ord}

\* ExecuteStep, line 123: startCompensation(saga).
StartCompensation(t) ==
  /\ t.type = "step_execute" /\ t.pc = "failed"
  /\ sagaStatus' = StatusFailed
  /\ steps' = SaveSaga(steps)
  /\ tasks' = Publish(Remove(tasks, t), "step_compensate", ToCompensate(steps))
  /\ returned' = Return(124, Nil)
  /\ UNCHANGED <<sagaData, handlers, listening, scan, running, scans, lifecycle, aliasing>>

\* ExecuteStep, lines 133-139: execData is written into saga.Data,
\* SaveSaga(saga), continueOrComplete(saga): the scan of the steps and the
\* publish or the final SaveSaga, as one step.
ContinueOrComplete(t) ==
  /\ t.type = "step_execute" /\ t.pc = "succeeded"
  /\ steps' = SaveSaga(steps)
  /\ LET k == CurrentIndex(steps, 1)
     IN IF k + 1 <= Len(steps)
        THEN /\ tasks' = Publish(Remove(tasks, t), "step_execute", {k + 1})
             /\ sagaStatus' = sagaStatus
        ELSE /\ tasks' = Remove(tasks, t)
             /\ sagaStatus' = StatusCompleted
  /\ sagaData' = Overlay(sagaData, t.exec)
  /\ returned' = Return(141, Nil)
  /\ UNCHANGED <<handlers, listening, scan, running, scans, lifecycle, aliasing>>

\* A CompensateStep without the status guard of line 151.
CompensateStepGetUnguarded(t) ==
  /\ t.type = "step_compensate" /\ t.pc = "start"
  /\ IF t.step \notin handlers[t.orch]
     THEN tasks' = Remove(tasks, t) /\ returned' = Return(157, ErrNoHandler)
     ELSE /\ ActiveCount < MaxActive
          /\ tasks' = Move(tasks, t, [t EXCEPT !.pc = "compensating"])
          /\ returned' = returned
  /\ UNCHANGED <<sagaData, handlers, listening, sagaStatus, steps, scan, running, scans, lifecycle, aliasing>>

\* CompensateStep, lines 146-172: GetStep, the status guard, the handler
\* lookup, GetSaga; the handler's Compensate is then running.
CompensateStepGet(t) ==
  /\ t.type = "step_compensate" /\ t.pc = "start"
  /\ IF GetStep(t.step).status # StatusCompleted
     THEN tasks' = Remove(tasks, t) /\ returned' = Return(152, Nil)
     ELSE IF t.step \notin handlers[t.orch]
     THEN tasks' = Remove(tasks, t) /\ returned' = Return(157, ErrNoHandler)
     ELSE /\ ActiveCount < MaxActive
          /\ tasks' = Move(tasks, t, [t EXCEPT !.pc = "compensating"])
          /\ returned' = returned
  /\ UNCHANGED <<sagaData, handlers, listening, sagaStatus, steps, scan, running, scans, lifecycle, aliasing>>

\* A CompensateStep that gives up when the compensator returns an error.
CompensateStepReturnAborts(t, ok) ==
  /\ t.type = "step_compensate" /\ t.pc = "compensating"
  /\ steps' = IF ok THEN UpdateStep(steps, t.step,
                            [steps[t.step] EXCEPT !.status = StatusCompensated])
              ELSE steps
  /\ tasks' = Remove(tasks, t)
  /\ returned' = Return(182, Nil)
  /\ UNCHANGED <<sagaData, handlers, listening, sagaStatus, scan, running, scans, lifecycle, aliasing>>

\* CompensateStep, lines 174-182: Compensate returns; its error is recorded,
\* the step is written compensated and UpdateStep stores it.
CompensateStepReturn(t, ok) ==
  /\ t.type = "step_compensate" /\ t.pc = "compensating"
  /\ steps' = UpdateStep(steps, t.step,
                [steps[t.step] EXCEPT !.status = StatusCompensated,
                                      !.err = IF ok THEN @ ELSE "compensate"])
  /\ tasks' = Remove(tasks, t)
  /\ returned' = Return(182, Nil)
  /\ UNCHANGED <<sagaData, handlers, listening, sagaStatus, scan, running, scans, lifecycle, aliasing>>

\* The process hosting orchestrator o dies (README, Crash Recovery): its
\* goroutines are gone and its subscription with them.
Crash(o) ==
  /\ o \in listening
  /\ listening' = listening \ {o}
  /\ tasks' = [t \in {u \in BagToSet(tasks) : u.orch # o} |-> CopiesIn(t, tasks)]
  /\ UNCHANGED <<sagaData, handlers, sagaStatus, steps, scan, running, scans, returned, lifecycle, aliasing>>

\* ---------------------------------------------------------------- recovery (storage.go)
\* A Start that launches a loop whatever the running flag says.
StartUnguarded ==
  /\ Len(calls) < MaxCalls /\ closes < 2
  /\ calls' = Append(calls, "Start")
  /\ running' = TRUE /\ loops' = loops + 1
  /\ UNCHANGED <<sagaData, handlers, listening, sagaStatus, steps, tasks, scan, scans, returned, closes, aliasing>>

\* RecoveryManager.Start (lines 160-167), called by the program that owns the
\* manager; no call is made after a panic has ended that program.
Start ==
  /\ Len(calls) < MaxCalls /\ closes < 2
  /\ calls' = Append(calls, "Start")
  /\ IF running
     THEN UNCHANGED <<running, loops>>
     ELSE running' = TRUE /\ loops' = loops + 1
  /\ UNCHANGED <<sagaData, handlers, listening, sagaStatus, steps, tasks, scan, scans, returned, closes, aliasing>>

\* RecoveryManager.Stop (lines 170-177).  close(r.stopCh) on the channel made
\* once by NewRecoveryManager: closing it a second time panics, which ends
\* the program and its goroutines.
Stop ==
  /\ Len(calls) < MaxCalls /\ closes < 2
  /\ calls' = Append(calls, "Stop")
  /\ IF ~running
     THEN UNCHANGED <<running, closes, loops>>
     ELSE /\ running' = FALSE
          /\ closes' = closes + 1
          /\ loops' = IF closes = 0 THEN loops ELSE 0
  /\ UNCHANGED <<sagaData, handlers, listening, sagaStatus, steps, tasks, scan, scans, returned, aliasing>>

\* recoveryLoop, lines 185-188: the select takes the closed stop channel and
\* the loop returns.
LoopExit ==
  /\ loops > 0 /\ closes = 1 /\ scan = {}
  /\ loops' = loops - 1
  /\ UNCHANGED <<sagaData, handlers, listening, sagaStatus, steps, tasks, scan, running, scans,
                 returned, closes, calls, aliasing>>

\* The one Start of a deployment (example/recovery_demo.go).
RecoveryStart == ~running /\ calls = <<>> /\ Start

\* recoveryLoop / recoverStuckSteps, line 196: a tick of the loop takes
\* GetStuckSteps (the previous call of recoverStuckSteps has returned).
RecoverTick(c) ==
  /\ loops > 0 /\ scan = {}
  /\ GetStuckSteps # {}
  /\ scan' = GetStuckSteps
  /\ scans' = c
  /\ UNCHANGED <<sagaData, handlers, listening, sagaStatus, steps, tasks, running, returned, lifecycle, aliasing>>

\* A tick, at most MaxScans of them.
RecoverScan == scans < MaxScans /\ RecoverTick(scans + 1)

\* A tick of a loop that keeps ticking.
RecoverScanForever == RecoverTick(scans)

\* A recoverStuckSteps that republishes without resetting the step.
RecoverStepKeepsProcessing(s) ==
  /\ s \in scan
  /\ scan' = scan \ {s}
  /\ tasks' = Publish(tasks, "step_execute", {s.step})
  /\ UNCHANGED <<sagaData, handlers, listening, sagaStatus, steps, running, scans, returned, lifecycle, aliasing>>

\* recoverStuckSteps, lines 202-229: one iteration of the loop over the
\* snapshots.  A processing snapshot is reset and stored with UpdateStep;
\* the step_execute message is republished.
RecoverStep(s) ==
  /\ s \in scan
  /\ scan' = scan \ {s}
  /\ tasks' = Publish(tasks, "step_execute", {s.step})
  /\ steps' = IF s.status = StatusProcessing
              THEN UpdateStep(steps, s.step,
                     [status |-> StatusPending, started |-> FALSE, old |-> FALSE, err |-> s.err,
                      data |-> s.data])
              ELSE steps
  /\ UNCHANGED <<sagaData, handlers, listening, sagaStatus, running, scans, returned, lifecycle, aliasing>>

\* ---------------------------------------------------------------- time
\* Only the timestamps GetStuckSteps reads are aged: UpdatedAt of a pending
\* step, StartedAt of a processing step.
Age(v) == IF v.status \in {StatusPending, StatusProcessing} THEN [v EXCEPT !.old = TRUE] ELSE v

\* More than the step timeout passes.
Tick ==
  /\ steps' = [i \in DOMAIN steps |-> Age(steps[i])]
  /\ steps' # steps
  /\ UNCHANGED <<sagaData, handlers, listening, sagaStatus, tasks, scan, running, scans, returned, lifecycle, aliasing>>

\* ---------------------------------------------------------------- Next
Next ==
  \/ \E o \in Orchs, n \in Names : RegisterHandler(o, n)
  \/ \E o \in Orchs : StartListener(o)
  \/ \E n \in 0..MaxSteps : StartSaga(n)
  \/ \E t \in BagToSet(tasks) : ExecuteStepGet(t)
  \/ \E t \in BagToSet(tasks) : ExecuteStepMark(t)
  \/ \E t \in BagToSet(tasks), ok \in BOOLEAN : ExecuteStepReturn(t, ok)
  \/ \E t \in BagToSet(tasks) : StartCompensation(t)
  \/ \E t \in BagToSet(tasks) : ContinueOrComplete(t)
  \/ \E t \in BagToSet(tasks) : CompensateStepGet(t)
  \/ \E t \in BagToSet(tasks), ok \in BOOLEAN : CompensateStepReturn(t, ok)
  \/ \E o \in Orchs : Crash(o)
  \/ RecoveryStart
  \/ RecoverScan
  \/ \E s \in scan : RecoverStep(s)
  \/ Tick

Spec == Init /\ [][Next]_vars

\* ---------------------------------------------------------------- liveness
\* The deployment of example/recovery_demo.go: the first orchestrator has
\* the handler of the first step, the second one those of the other steps;
\* none listens yet.
InitDeployed ==
  /\ handlers = [o \in Orchs |-> IF o = "o1" THEN {1} ELSE Names \ {1}]
  /\ listening = {}
  /\ sagaStatus = NoSaga
  /\ steps = <<>>
  /\ tasks = EmptyBag
  /\ scan = {}
  /\ running = FALSE
  /\ scans = 0
  /\ returned = NoCall
  /\ loops = 0 /\ closes = 0 /\ calls = <<>>
  /\ sagaData = EmptyData
  /\ stepPtr = <<>> /\ heap = <<>> /\ held = {}

\* The deployment stays up: no process dies.
NextLive ==
  \/ \E o \in Orchs : StartListener(o)
  \/ \E n \in 0..MaxSteps : StartSaga(n)
  \/ \E t \in BagToSet(tasks) : ExecuteStepGet(t)
  \/ \E t \in BagToSet(tasks) : ExecuteStepMark(t)
  \/ \E t \in BagToSet(tasks), ok \in BOOLEAN : ExecuteStepReturn(t, ok)
  \/ \E t \in BagToSet(tasks) : StartCompensation(t)
  \/ \E t \in BagToSet(tasks) : ContinueOrComplete(t)
  \/ \E t \in BagToSet(tasks) : CompensateStepGet(t)
  \/ \E t \in BagToSet(tasks), ok \in BOOLEAN : CompensateStepReturn(t, ok)
  \/ RecoveryStart
  \/ RecoverScan
  \/ \E s \in scan : RecoverStep(s)
  \/ Tick

\* The deployment stays up, every forward action succeeds and the recovery
\* loop keeps ticking.
NextOK ==
  \/ \E o \in Orchs : StartListener(o)
  \/ \E n \in 0..MaxSteps : StartSaga(n)
  \/ \E t \in BagToSet(tasks) : ExecuteStepGet(t)
  \/ \E t \in BagToSet(tasks) : ExecuteStepMark(t)
  \/ \E t \in BagToSet(tasks) : ExecuteStepReturn(t, TRUE)
  \/ \E t \in BagToSet(tasks) : ContinueOrComplete(t)
  \/ RecoveryStart
  \/ RecoverScanForever
  \/ \E s \in scan : RecoverStep(s)
  \/ Tick

\* The goroutines that handle a message for step i on orchestrator o.
Goroutines(o, i) == {t \in BagToSet(tasks) : t.orch = o /\ t.step = i}

ExecuteStepReturns(t) == \E ok \in BOOLEAN : ExecuteStepReturn(t, ok)
ExecuteStepSucceeds(t) == ExecuteStepReturn(t, TRUE)
CompensateStepReturns(t) == \E ok \in BOOLEAN : CompensateStepReturn(t, ok)

\* Goroutines are scheduled and handlers return.  With at most MaxScans
\* scans a behaviour of NextLive starts finitely many goroutines, so being
\* fair to each action is being fair to each goroutine.
Scheduling ==
  /\ WF_vars(\E t \in BagToSet(tasks) : ExecuteStepGet(t))
  /\ WF_vars(\E t \in BagToSet(tasks) : ExecuteStepMark(t))
  /\ WF_vars(\E t \in BagToSet(tasks) : ExecuteStepReturns(t))
  /\ WF_vars(\E t \in BagToSet(tasks) : StartCompensation(t))
  /\ WF_vars(\E t \in BagToSet(tasks) : ContinueOrComplete(t))
  /\ WF_vars(\E t \in BagToSet(tasks) : CompensateStepGet(t))
  /\ WF_vars(\E t \in BagToSet(tasks) : CompensateStepReturns(t))
  /\ WF_vars(\E s \in scan : RecoverStep(s))

\* Every goroutine is scheduled and every forward action returns, while
\* the recovery loop keeps starting new goroutines.  (Strong fairness where
\* a goroutine can be held back by MaxActive.)
SchedulingOK ==
  /\ \A o \in Orchs, i \in Names :
       /\ SF_vars(\E t \in Goroutines(o, i) : ExecuteStepGet(t))
       /\ WF_vars(\E t \in Goroutines(o, i) : ExecuteStepMark(t))
       /\ WF_vars(\E t \in Goroutines(o, i) : ExecuteStepSucceeds(t))
       /\ WF_vars(\E t \in Goroutines(o, i) : ContinueOrComplete(t))
  /\ WF_vars(\E s \in scan : RecoverStep(s))

\* Time passes and the recovery loop's ticker fires.
Ticking == WF_vars(Tick) /\ WF_vars(RecoverScanForever)

SpecFair == InitDeployed /\ [][NextLive]_vars /\ Scheduling

SpecOK == InitDeployed /\ [][NextOK]_vars /\ SchedulingOK /\ Ticking

\* ---------------------------------------------------------------- lifecycle
\* The RecoveryManager of example/recovery_demo.go under any sequence of
\* Start and Stop calls, beside the first orchestrator running a saga of one
\* step whose forward action succeeds.
NextLifecycle ==
  \/ StartListener("o1")
  \/ StartSaga(1)
  \/ \E t \in BagToSet(tasks) :
       \/ ExecuteStepGet(t)
       \/ ExecuteStepMark(t)
       \/ ExecuteStepReturn(t, TRUE)
       \/ ContinueOrComplete(t)
  \/ Start
  \/ Stop
  \/ LoopExit
  \/ RecoverScan
  \/ \E s \in scan : RecoverStep(s)
  \/ Tick

SpecLifecycle == InitDeployed /\ [][NextLifecycle]_vars

\* ---------------------------------------------------------------- rollback
\* The saga of example/failure/main.go (TestSagaFailureAndCompensation): one
\* orchestrator has the handlers of all RollbackSteps steps, a second one may
\* listen without handlers; forward actions and compensators succeed or
\* fail; there is no RecoveryManager and no crash.
InitRollback ==
  /\ handlers = [o \in Orchs |-> IF o = "o1" THEN 1..RollbackSteps ELSE {}]
  /\ listening = {}
  /\ sagaStatus = NoSaga
  /\ steps = <<>>
  /\ tasks = EmptyBag
  /\ scan = {}
  /\ running = FALSE
  /\ scans = 0
  /\ returned = NoCall
  /\ loops = 0 /\ closes = 0 /\ calls = <<>>
  /\ sagaData = EmptyData
  /\ stepPtr = <<>> /\ heap = <<>> /\ held = {}

NextRollback ==
  \/ \E o \in Orchs : StartListener(o)
  \/ StartSaga(RollbackSteps)
  \/ \E t \in BagToSet(tasks) :
       \/ ExecuteStepGet(t)
       \/ ExecuteStepMark(t)
       \/ \E ok \in BOOLEAN : ExecuteStepReturn(t, ok)
       \/ StartCompensation(t)
       \/ ContinueOrComplete(t)
       \/ CompensateStepGet(t)
       \/ \E ok \in BOOLEAN : CompensateStepReturn(t, ok)

SpecRollback == InitRollback /\ [][NextRollback]_vars

\* ---------------------------------------------------------------- data
\* The deployment of example/recovery_demo.go with forward actions that
\* succeed and write into the data they are given.
NextData ==
  \/ \E o \in Orchs : StartListener(o)
  \/ StartSaga(MaxSteps)
  \/ \E t \in BagToSet(tasks) :
       \/ ExecuteStepGet(t)
       \/ ExecuteStepMark(t)
       \/ \E k \in DataKeys : HandlerWrite(t, k)
       \/ ExecuteStepReturn(t, TRUE)
       \/ ContinueOrComplete(t)
  \/ RecoveryStart
  \/ RecoverScan
  \/ \E s \in scan : RecoverStep(s)
  \/ Tick

SpecData == InitDeployed /\ [][NextData]_vars

\* ---------------------------------------------------------------- pointers
\* MemoryStorage at the level of its pointers.  steps is Saga.Steps of the
\* stored saga; stepPtr[i] is m.steps[id of step i]: &saga.Steps[i] (a slot)
\* or the address of a copy made by recoverStuckSteps (one loop variable per
\* iteration).  Callers are the ExecuteStep and CompensateStep calls, which
\* write the Step they got from GetStep in place before UpdateStep, and the
\* recovery loop, which writes and stores its own copy.
Slot(i) == [kind |-> "slot", n |-> i]
Copy(c) == [kind |-> "copy", n |-> c]

\* the Step a pointer points to, with its ID
Obj(r) == IF r.kind = "slot" THEN [id |-> r.n, val |-> steps[r.n]] ELSE heap[r.n]

\* the saga of StartSaga with MaxSteps steps, stored by SaveSaga
InitStorage ==
  /\ handlers = [o \in Orchs |-> {}]
  /\ listening = {}
  /\ sagaStatus = StatusPending
  /\ steps = SaveSaga([i \in 1..MaxSteps |-> NewStep])
  /\ tasks = EmptyBag
  /\ scan = {}
  /\ running = FALSE
  /\ scans = 0
  /\ returned = NoCall
  /\ loops = 0 /\ closes = 0 /\ calls = <<>>
  /\ sagaData = EmptyData
  /\ stepPtr = [i \in 1..MaxSteps |-> Slot(i)] /\ heap = <<>> /\ held = {}

\* step, err := o.storage.GetStep(ctx, stepID)
GetStepCall(i) ==
  /\ Cardinality(held) < MaxHeld
  /\ held' = held \cup {[ref |-> stepPtr[i], dirty |-> FALSE]}
  /\ UNCHANGED <<handlers, listening, sagaStatus, steps, tasks, scan, running, scans,
                 returned, lifecycle, sagaData, stepPtr, heap>>

\* step.Status = ... (and StartedAt, Error) written through the pointer, as
\* in orchestrator.go lines 95-96, 118-119, 128-129, 176-180.
WriteInPlace(h, st) ==
  /\ h \in held
  /\ LET v == [Obj(h.ref).val EXCEPT
                 !.status = st,
                 !.started = IF st = StatusProcessing THEN TRUE ELSE @,
                 !.err = IF st = StatusFailed THEN "execute" ELSE @]
     IN IF h.ref.kind = "slot"
        THEN steps' = [steps EXCEPT ![h.ref.n] = v] /\ heap' = heap
        ELSE heap' = [heap EXCEPT ![h.ref.n].val = v] /\ steps' = steps
  /\ held' = (held \ {h}) \cup {[h EXCEPT !.dirty = TRUE]}
  /\ UNCHANGED <<handlers, listening, sagaStatus, tasks, scan, running, scans,
                 returned, lifecycle, sagaData, stepPtr>>

\* MemoryStorage.UpdateStep(ctx, step), lines 60-79: m.steps[step.ID] = step;
\* saga.Steps[i] = *step.
UpdateStepCall(h) ==
  /\ h \in held
  /\ LET o == Obj(h.ref)
     IN /\ stepPtr' = [stepPtr EXCEPT ![o.id] = h.ref]
        /\ steps' = UpdateStep(steps, o.id, o.val)
        /\ heap' = IF h.ref.kind = "copy"
                   THEN [heap EXCEPT ![h.ref.n].val = Touch(o.val)] ELSE heap
  /\ held' = (held \ {h}) \cup {[h EXCEPT !.dirty = FALSE]}
  /\ UNCHANGED <<handlers, listening, sagaStatus, tasks, scan, running, scans,
                 returned, lifecycle, sagaData>>

\* MemoryStorage.SaveSaga(ctx, saga), lines 24-46, on the stored saga:
\* m.steps[step.ID] = &saga.Steps[i] for every step.
SaveSagaCall ==
  /\ steps' = SaveSaga(steps)
  /\ stepPtr' = [i \in DOMAIN steps |-> Slot(i)]
  /\ stepPtr' # stepPtr
  /\ UNCHANGED <<handlers, listening, sagaStatus, tasks, scan, running, scans,
                 returned, lifecycle, sagaData, heap, held>>

\* recoverStuckSteps, lines 202-214: the loop variable holds the copy that
\* GetStuckSteps made of a processing step, and is reset in place; the
\* UpdateStep(ctx, &step) of line 215 is the next step of this caller.
RecoverCopy(i) ==
  /\ Len(heap) < MaxCopies /\ Cardinality(held) < MaxHeld
  /\ Obj(stepPtr[i]).val.status = StatusProcessing
  /\ heap' = Append(heap, [id |-> i,
                           val |-> [Obj(stepPtr[i]).val EXCEPT
                                      !.status = StatusPending, !.started = FALSE]])
  /\ held' = held \cup {[ref |-> Copy(Len(heap) + 1), dirty |-> TRUE]}
  /\ UNCHANGED <<handlers, listening, sagaStatus, steps, tasks, scan, running, scans,
                 returned, lifecycle, sagaData, stepPtr>>

\* The caller returns: every write it made has been stored.
Release(h) ==
  /\ h \in held /\ ~h.dirty
  /\ held' = held \ {h}
  /\ UNCHANGED <<handlers, listening, sagaStatus, steps, tasks, scan, running, scans,
                 returned, lifecycle, sagaData, stepPtr, heap>>

NextStorage ==
  \/ \E i \in DOMAIN stepPtr : GetStepCall(i)
  \/ \E h \in held, st \in {StatusProcessing, StatusCompleted, StatusFailed,
                             StatusCompensated} : WriteInPlace(h, st)
  \/ \E h \in held : UpdateStepCall(h)
  \/ SaveSagaCall
  \/ \E i \in DOMAIN stepPtr : RecoverCopy(i)
  \/ \E h \in held : Release(h)

SpecStorage == InitStorage /\ [][NextStorage]_vars

\* ---------------------------------------------------------------- properties
St(i) == IF i \in Idx THEN steps[i].status ELSE "none"

\* every step of the saga has its handler on a listening orchestrator
Covered == \A i \in Idx : \E o \in listening : i \in handlers[o]

\* the state StartSaga leaves behind
JustStarted ==
  /\ sagaStatus = StatusPending
  /\ steps = [i \in Idx |-> NewStep]
  /\ tasks = IF Len(steps) > 0 THEN Publish(EmptyBag, "step_execute", {1}) ELSE EmptyBag
  /\ scan = {}

\* the forward action of step i has just returned an error
Failing(i) ==
  /\ St(i) = StatusFailed
  /\ \E t \in BagToSet(tasks) : t.type = "step_execute" /\ t.step = i /\ t.pc = "failed"

SomeFailing == \E i \in Names : Failing(i)

Stuck(i) == IF i \in Idx THEN IsStuck(steps[i]) ELSE FALSE

\* goroutines inside the forward action of step i
Invoked(i) == Copies(tasks, {t \in BagToSet(tasks) : t.step = i /\ t.pc = "running"})

\* ---------------------------------------------------------------- claims
\* C1: whenever the forward action of a step returns an error (the handlers
\* of all steps being on listening orchestrators), the saga eventually is
\* Failed, and every step that is Completed at that moment eventually is
\* Compensated.  (The failing step is Failed at that moment.)
C1_FailureIsCompensated ==
  /\ (SomeFailing /\ Covered) ~> (sagaStatus = StatusFailed)
  /\ \A j \in Names :
       (SomeFailing /\ Covered /\ St(j) = StatusCompleted) ~> (St(j) = StatusCompensated)

\* C2: after a StartSaga whose step names all have a handler on a listening
\* orchestrator, when every forward action succeeds, the saga eventually is
\* Completed with every step Completed.
C2_SagaCompletes ==
  (JustStarted /\ Covered)
    ~> (sagaStatus = StatusCompleted /\ \A i \in Idx : St(i) = StatusCompleted)

\* C3: once a step has failed, a later step that is Pending stays Pending
\* (its forward action is never invoked), recovery scans included.
C3_PendingAfterFailureStays ==
  [][\A i \in Idx :
       ((\E j \in Idx : j < i /\ St(j) = StatusFailed) /\ St(i) = StatusPending)
         => St(i)' = StatusPending]_vars

\* C4: a step enters Processing only in a state where every step with a
\* lower index is Completed.
C4_StrictlySequential ==
  [][\A i \in Idx :
       (St(i) # StatusProcessing /\ St(i)' = StatusProcessing)
         => \A j \in 1..(i - 1) : St(j)' = StatusCompleted]_vars

C6_FailedSagaHasFailedStep ==
  sagaStatus = StatusFailed =>
    \E j \in Idx :
      /\ St(j) = StatusFailed
      /\ \A k \in 1..(j - 1) : St(k) \in {StatusCompleted, StatusCompensated}

LegalTransitions ==
  { <<StatusPending, StatusProcessing>>, <<StatusProcessing, StatusCompleted>>,
    <<StatusProcessing, StatusFailed>>, <<StatusCompleted, StatusCompensated>>,
    <<StatusProcessing, StatusPending>> }

\* C7: every change of a stored step's status is an edge of the transition
\* graph, and Processing -> Pending is made by the recovery loop only.
C7_LegalTransitions ==
  [][\A i \in Idx :
       St(i)' # St(i) =>
         /\ <<St(i), St(i)'>> \in LegalTransitions
         /\ (St(i) = StatusProcessing /\ St(i)' = StatusPending)
              => \E s \in scan : RecoverStep(s)]_vars

\* C8: however often the step_execute message of a step is delivered, the
\* forward action is invoked at most once: a goroutine enters the forward
\* action of a step only from the stored status Pending.
C8_InvokedAtMostOnce ==
  [][\A i \in Idx : Invoked(i)' > Invoked(i) => St(i) = StatusPending]_vars

\* C9: once the saga is Completed or Failed its status never changes.
C9_TerminalIsFinal ==
  [][(sagaStatus \in {StatusCompleted, StatusFailed}) => sagaStatus' = sagaStatus]_vars

\* C10: a stuck step, once the recovery loop keeps scanning, the handlers
\* are on listening orchestrators and the forward actions succeed, eventually
\* is Completed, and its saga eventually is Completed or Failed.
C10_StuckStepRecovers ==
  \A i \in Names :
    /\ (Stuck(i) /\ running /\ Covered) ~> (St(i) = StatusCompleted)
    /\ (Stuck(i) /\ running /\ Covered) ~> (sagaStatus \in {StatusCompleted, StatusFailed})

\* the goroutines a step_execute message for step i starts
Deliveries(i) == {StartTask(o, "step_execute", i) : o \in listening}

\* C11: a scan takes the stuck steps and changes nothing; for each of them
\* the recovery loop publishes one step_execute message for that step,
\* after storing the step Pending with started_at cleared when it was
\* Processing, leaving the stored step as it is when it was Pending; no
\* other step and no saga status changes.
C11_RecoveryScanEffect ==
  [][/\ (scan = {} /\ scan' # {}) =>
          /\ {s.step : s \in scan'} = {i \in Idx : Stuck(i)}
          /\ steps' = steps /\ sagaStatus' = sagaStatus /\ tasks' = tasks
     /\ \A s \in scan : (scan' = scan \ {s}) =>
          /\ sagaStatus' = sagaStatus
          /\ \A i \in Idx : i # s.step => steps'[i] = steps[i]
          /\ s.status = StatusPending => steps'[s.step] = steps[s.step]
          /\ s.status = StatusProcessing =>
               steps'[s.step].status = StatusPending /\ ~steps'[s.step].started
          /\ \A t \in Deliveries(s.step) :
               CopiesIn(t, tasks') = Min(CopiesIn(t, tasks) + 1, MaxInbox)
          /\ \A t \in (BagToSet(tasks) \cup BagToSet(tasks')) \ Deliveries(s.step) :
               CopiesIn(t, tasks') = CopiesIn(t, tasks)]_vars

\* C11 witness: the recovery loop has reset a step whose forward action is
\* still running and has republished it.
C11_Witness ==
  /\ scans > 0 /\ scan = {}
  /\ \E i \in Idx :
       /\ St(i) = StatusPending /\ ~steps[i].started /\ Invoked(i) > 0
       /\ \E t \in Deliveries(i) : CopiesIn(t, tasks) > 0

\* the calls of ExecuteStep that have not read the step yet
ExecuteCalls == {t \in BagToSet(tasks) : t.type = "step_execute" /\ t.pc = "start"}

\* C12: an ExecuteStep call that finds the stored step not Pending changes no
\* step and no saga status, starts and advances no goroutine (no handler is
\* invoked, no message is published), and returns nil.
C12_ExecuteNotPendingIsNoOp ==
  [][\A t \in ExecuteCalls :
       (GetStep(t.step).status # StatusPending /\ ExecuteStepGet(t)) =>
         /\ steps' = steps /\ sagaStatus' = sagaStatus
         /\ tasks' = Remove(tasks, t)
         /\ returned' = Return(85, Nil)]_vars

\* C12 witness: before any recovery scan and any failure or completion, a
\* call has returned nil (so it found its step not Pending) while the step
\* is still Processing in the one handler invocation that took it.
C12_Witness ==
  /\ scans = 0 /\ sagaStatus = StatusPending /\ returned = Return(85, Nil)
  /\ \A t \in BagToSet(tasks) : t.pc \in {"start", "checked", "running"}
  /\ \A i \in Idx : St(i) \in {StatusPending, StatusProcessing}
  /\ \E i \in Idx : St(i) = StatusProcessing /\ Invoked(i) = 1

\* the calls of CompensateStep that have not read the step yet
CompensateCalls == {t \in BagToSet(tasks) : t.type = "step_compensate" /\ t.pc = "start"}

\* the invocations of the compensator of step i that are running
Compensating(i) == Copies(tasks, {t \in BagToSet(tasks) : t.step = i /\ t.pc = "compensating"})

\* C13: a CompensateStep call that finds the stored step not Completed
\* changes no step and no saga status, invokes no compensator, publishes
\* nothing and returns nil; a compensator is invoked only for a step that is
\* stored Completed.
C13_CompensateNotCompletedIsNoOp ==
  [][/\ \A t \in CompensateCalls :
          (GetStep(t.step).status # StatusCompleted /\ CompensateStepGet(t)) =>
            /\ steps' = steps /\ sagaStatus' = sagaStatus
            /\ tasks' = Remove(tasks, t)
            /\ returned' = Return(152, Nil)
     /\ \A i \in Idx : Compensating(i)' > Compensating(i) => St(i) = StatusCompleted]_vars

\* C13 witness: a CompensateStep call has just returned from the status
\* guard, for a step another call had already compensated.
C13_Witness ==
  /\ returned = Return(152, Nil)
  /\ sagaStatus = StatusFailed
  /\ \E i \in Idx : St(i) = StatusCompensated /\ Compensating(i) = 0

\* C14: no saga with an empty step sequence is ever persisted.
C14_NoEmptySagaPersisted == sagaStatus # NoSaga => Len(steps) > 0

\* the goroutines that are at program position pc
At(pc) == {t \in BagToSet(tasks) : t.pc = pc}

\* C15: when the forward action returns an error, ExecuteStep stores the step
\* Failed with the error text, without returning yet; its startCompensation
\* then stores the saga Failed, publishes step_compensate for every Completed
\* step to every subscriber, changes no step status, and the call returns nil.
C15_HandlerErrorFailsStep ==
  [][/\ \A t \in At("running") : ExecuteStepReturn(t, FALSE) =>
          /\ steps'[t.step].status = StatusFailed
          /\ steps'[t.step].err = "execute"
          /\ \A i \in Idx \ {t.step} : steps'[i] = steps[i]
          /\ sagaStatus' = sagaStatus /\ returned' = returned
          /\ tasks' = Move(tasks, t, [t EXCEPT !.pc = "failed"])
     /\ \A t \in At("failed") : StartCompensation(t) =>
          /\ sagaStatus' = StatusFailed
          /\ returned' = Return(124, Nil)
          /\ \A i \in Idx : steps'[i].status = steps[i].status /\ steps'[i].err = steps[i].err
          /\ \A i \in Idx, o \in listening :
               LET m == StartTask(o, "step_compensate", i)
               IN CopiesIn(m, tasks') =
                    IF steps[i].status = StatusCompleted
                    THEN Min(CopiesIn(m, tasks) + 1, MaxInbox) ELSE CopiesIn(m, tasks)
          /\ \A m \in BagToSet(tasks') : m.type = "step_execute" =>
               CopiesIn(m, tasks') <= CopiesIn(m, tasks)]_vars

\* C15 witness: a call has just returned nil after startCompensation: the
\* saga is Failed, a step is Failed with the error of its forward action, and
\* the compensation of a Completed step has been published.
C15_Witness ==
  /\ returned = Return(124, Nil)
  /\ sagaStatus = StatusFailed
  /\ \E i \in Idx : St(i) = StatusFailed /\ steps[i].err = "execute"
  /\ \E j \in Idx : St(j) = StatusCompleted /\
       \E o \in listening : CopiesIn(StartTask(o, "step_compensate", j), tasks) > 0

\* C16: an ExecuteStep call that finds the step Pending on an orchestrator
\* without a handler for its name returns the no-handler error and changes
\* no step (the step stays Pending, StartedAt stays nil), no saga status, and
\* starts no goroutine: nothing is published and no handler is invoked.
C16_NoHandlerLeavesStepPending ==
  [][\A t \in ExecuteCalls :
       (/\ GetStep(t.step).status = StatusPending
        /\ t.step \notin handlers[t.orch]
        /\ ExecuteStepGet(t)) =>
         /\ returned' = Return(90, ErrNoHandler)
         /\ steps' = steps /\ sagaStatus' = sagaStatus
         /\ tasks' = Remove(tasks, t)]_vars

\* C16 witness: a call has just returned the no-handler error, the steps are
\* all still Pending and never started, and no recovery scan has run (so the
\* call was for the first step, delivered to an orchestrator without its
\* handler).
C16_Witness ==
  /\ returned = Return(90, ErrNoHandler)
  /\ scans = 0 /\ sagaStatus = StatusPending /\ Len(steps) > 0
  /\ \A i \in Idx : St(i) = StatusPending /\ ~steps[i].started

\* C17: when the compensator returns an error, CompensateStep stores the step
\* Compensated with the error text, changes no other step, leaves the saga
\* status as it is (a Failed saga stays Failed), publishes nothing and
\* returns nil.
C17_CompensationErrorStillCompensates ==
  [][\A t \in At("compensating") : CompensateStepReturn(t, FALSE) =>
       /\ steps'[t.step].status = StatusCompensated
       /\ steps'[t.step].err = "compensate"
       /\ \A i \in Idx \ {t.step} : steps'[i] = steps[i]
       /\ sagaStatus' = sagaStatus
       /\ sagaStatus = StatusFailed => sagaStatus' = StatusFailed
       /\ tasks' = Remove(tasks, t)
       /\ returned' = Return(182, Nil)]_vars

\* C17 witness: a CompensateStep has just returned, a step is Compensated and
\* carries the error of its compensator, and the saga is Failed.
C17_Witness ==
  /\ returned = Return(182, Nil)
  /\ sagaStatus = StatusFailed
  /\ \E i \in Idx : St(i) = StatusCompensated /\ steps[i].err = "compensate"

AllButCalls == <<handlers, listening, sagaStatus, steps, tasks, scan, running, scans,
                 returned, loops, closes, sagaData, aliasing>>

\* C19: a Start called while the manager is running launches no loop and
\* changes nothing, and a Stop called while it is not running (after a Stop,
\* or before any Start) closes nothing and changes nothing.
C19_StartStopIdempotent ==
  [][/\ (running /\ calls' = Append(calls, "Start")) => UNCHANGED AllButCalls
     /\ (~running /\ calls' = Append(calls, "Stop")) => UNCHANGED AllButCalls]_vars

\* C19 witness: Start, Start, Stop, Stop have been called: the channel has
\* been closed once and the one loop that was launched is still alive or has
\* returned.
C19_Witness ==
  /\ calls = <<"Start", "Start", "Stop", "Stop">>
  /\ ~running /\ closes = 1 /\ loops <= 1

C21_CompensationFlow ==
  [][\A t \in At("failed") : StartCompensation(t) =>
       LET ord == CompensationOrder(steps, Len(steps))
       IN /\ sagaStatus' = StatusFailed
          /\ \A a, b \in DOMAIN ord : a < b => ord[a] > ord[b]
          /\ {ord[k] : k \in DOMAIN ord} = {i \in Idx : steps[i].status = StatusCompleted}
          /\ \A i \in Idx, o \in listening :
               LET m == StartTask(o, "step_compensate", i)
               IN CopiesIn(m, tasks') =
                    IF i \in {ord[k] : k \in DOMAIN ord}
                    THEN Min(CopiesIn(m, tasks) + 1, MaxInbox) ELSE CopiesIn(m, tasks)
          /\ \A k \in DOMAIN ord : ord[k] # t.step]_vars

\* C22: compensators are invoked in reverse step order: when the compensator
\* of step i is invoked, the compensator of every Completed step after i has
\* already been invoked.
C22_ReverseOrderCompensation ==
  [][\A i \in Idx : Compensating(i)' > Compensating(i) =>
       \A j \in Idx : (j > i /\ St(j) = StatusCompleted) => Compensating(j) > 0]_vars

\* C23: the data given to a forward action is the saga's data with the
\* step's data laid over it; on success the step's stored data is that map
\* with the handler's writes, and each of its keys is written into the saga's
\* data; a forward action that is running has every key that an earlier,
\* Completed step has in its data.
C23_DataFlowsToLaterSteps ==
  [][/\ \A t \in At("checked") : ExecuteStepMark(t) =>
          \E u \in BagToSet(tasks') :
            /\ tasks' = Move(tasks, t, u)
            /\ u.pc = "running"
            /\ \A k \in DataKeys :
                 u.exec[k] = IF steps[t.step].data[k] # Absent
                             THEN steps[t.step].data[k] ELSE sagaData[k]
     /\ \A t \in At("running") : ExecuteStepReturn(t, TRUE) =>
          steps'[t.step].data = t.exec
     /\ \A t \in At("succeeded") : ContinueOrComplete(t) =>
          \A k \in DataKeys :
            sagaData'[k] = IF t.exec[k] # Absent THEN t.exec[k] ELSE sagaData[k]
     /\ \A t \in At("running")' : \A i \in 1..(t.step - 1) :
          steps'[i].status = StatusCompleted =>
            \A k \in DataKeys : steps'[i].data[k] # Absent => t.exec[k] # Absent]_vars

\* C24: StartSaga stores a Pending saga whose steps are all new Pending steps
\* with empty data, and publishes exactly one step_execute, for the first
\* step: one goroutine per subscriber for that step and no other goroutine.
C24_StartSagaEffect ==
  [][(sagaStatus = NoSaga /\ sagaStatus' # NoSaga) =>
       /\ sagaStatus' = StatusPending
       /\ \A i \in DOMAIN steps' : steps'[i] = NewStep
       /\ \A o \in listening : CopiesIn(StartTask(o, "step_execute", 1), tasks') = 1
       /\ \A m \in BagToSet(tasks') : m \in Deliveries(1)]_vars

\* C25: for every step id, the Step that GetStep returns has that id and the
\* status, data, error and StartedAt of the entry of saga.Steps (as GetSaga
\* returns it) at the step's position of creation.
C25_GetStepMatchesGetSaga ==
  \A i \in DOMAIN stepPtr :
    LET o == Obj(stepPtr[i])
    IN /\ o.id = i
       /\ o.val.status = steps[i].status
       /\ o.val.data = steps[i].data
       /\ o.val.err = steps[i].err
       /\ o.val.started = steps[i].started

\* the step_compensate messages and calls for step i
CompensationsOf(i) == {t \in BagToSet(tasks) : t.type = "step_compensate" /\ t.step = i}

\* C26: recovery selects no Completed step and publishes no step_compensate;
\* a Completed step of a Failed saga for which no step_compensate message or
\* call is left stays Completed at every step of the program.
C26_LostCompensationNeverRecovered ==
  [][/\ \A s \in scan' : s.status # StatusCompleted
     /\ (\E s \in scan : RecoverStep(s)) =>
          \A i \in Idx : CompensationsOf(i)' \subseteq CompensationsOf(i)
     /\ \A i \in Idx :
          (sagaStatus = StatusFailed /\ St(i) = StatusCompleted /\ CompensationsOf(i) = {})
            => steps'[i].status = StatusCompleted]_vars

\* C27: the compensation action of a step is invoked at most once; stated
\* for the invocations that are running: no step has two compensation
\* actions in progress at the same time.
C27_CompensationInvokedAtMostOnce == \A i \in Idx : Compensating(i) <= 1

\* C28: whenever running is true a recoveryLoop goroutine is alive that has
\* not taken the stop signal, and the stop channel is never closed twice.
C28_RunningHasLiveLoop == (running => loops > 0) /\ closes <= 1
====
